---- MODULE Spec2Model ----
(***************************************************************************)
(* Shift window and attendance classification engine of the ZKTeco         *)
(* attendance bridge (core/processing_utils.py, core/models.py,            *)
(* core/views.py, core/device_utils.py).                                   *)
(*                                                                         *)
(* Time is counted in seconds.  An absolute instant is a number of seconds *)
(* on the UTC axis; a calendar date is a day number; a time of day is a    *)
(* number of seconds since local midnight.  A time zone is a fixed offset  *)
(* in hours (Africa/Nairobi is UTC+3 all year, UTC is 0).                  *)
(***************************************************************************)
EXTENDS Integers, Sequences, FiniteSets, Bags, TLC

\* ---------------------------------------------------------------- bounds
\* number of RawAttendance rows the terminals ever deliver
MaxPunches == 2

\* ------------------------------------------------------- time arithmetic
Hour == 60 * 60
Day == 24 * Hour
HM(h, m) == h * Hour + m * 60
HMS(h, m, s) == h * Hour + m * 60 + s

\* datetime.combine(date, time): a naive local datetime
Combine(d, t) == d * Day + t
\* tz.localize(naive): the instant at which the zone's clock shows naive
Localize(naive, off) == naive - off * Hour
\* instant.astimezone(tz): what the zone's clock shows at the instant
AsTimezone(ts, off) == ts + off * Hour
DateOf(naive) == naive \div Day
TimeOf(naive) == naive % Day
HourOf(t) == t \div Hour

None == -1
\* the one element of a set
The(S) == CHOOSE x \in S : TRUE
NoDevice == "none"

\* --------------------------------------------------------- configuration
Devices == {"d1"}
Users == {"u1"}
BaseDay == 10
PunchDays == {BaseDay}
\* local times of day at which the terminal reports punches
PunchTods ==
  { HM(2, 0), HM(4, 30), HMS(5, 59, 59), HM(6, 0), HM(8, 0),
    HM(12, 30), HM(14, 0), HM(20, 45), HM(22, 0) }

\* settings.py values; times are the HH:MM strings split at the colon
Settings ==
  { [ WORK_START_TIME |-> <<8, 0>>, WORK_END_TIME |-> <<18, 0>>,
      OVERNIGHT_SHIFT |-> FALSE, OVERNIGHT_SHIFT_BUFFER_HOURS |-> 2,
      OUTLIER_EARLY_CLOCK_IN_HOURS |-> 2 ],
    [ WORK_START_TIME |-> <<20, 0>>, WORK_END_TIME |-> <<5, 0>>,
      OVERNIGHT_SHIFT |-> TRUE, OVERNIGHT_SHIFT_BUFFER_HOURS |-> 2,
      OUTLIER_EARLY_CLOCK_IN_HOURS |-> 2 ],
    [ WORK_START_TIME |-> <<18, 0>>, WORK_END_TIME |-> <<13, 0>>,
      OVERNIGHT_SHIFT |-> TRUE, OVERNIGHT_SHIFT_BUFFER_HOURS |-> 2,
      OUTLIER_EARLY_CLOCK_IN_HOURS |-> 2 ] }

\* offset of settings.TIME_ZONE (default 'UTC')
TIME_ZONE == 0
\* offsets a Device.timezone can name: 'UTC' or the default 'Africa/Nairobi'
DeviceTimezones == {0, 3}

VARIABLES
  settings,    \* the ambient configuration of the process
  device_tz,   \* Device.timezone of every device, as an offset
  raw,         \* RawAttendance table
  processed,   \* ProcessedAttendance table (a bag of rows)
  outliers,    \* OutlierPunch table (a bag of rows)
  lastOp,      \* what the last operation did (history)
  created,     \* number of RawAttendance rows ever created (history)
  crm          \* the CRM side: settings.CRM_SYNC_BATCH_SIZE and the dates
               \* whose records the CRM endpoint answers with an error

vars == <<settings, device_tz, raw, processed, outliers, lastOp, created, crm>>

\* ---------------------------------------------------------- pure helpers
\* parse_work_time: "HH:MM" -> time, 09:00 when time() rejects the fields
parse_work_time(hm) ==
  IF Len(hm) = 2 /\ hm[1] \in 0..23 /\ hm[2] \in 0..59
    THEN HM(hm[1], hm[2])
    ELSE HM(9, 0)

\* one human-readable sentence: its template and the number it prints
Sentence(text, n) == [text |-> text, n |-> n]

\* "if not clock_in or not clock_out", with "and" in the place of "or"
IsIncomplete_BothMissing(clock_in, clock_out) ==
  clock_in = None /\ clock_out = None

\* "if not clock_in or not clock_out"
IsIncomplete(clock_in, clock_out) ==
  clock_in = None \/ clock_out = None

\* "clock_in_time > work_start" as "clock_in_time >= work_start"
IsLate_OrEqual(clock_in_time, work_start) == clock_in_time >= work_start

\* "if clock_in_time > work_start"
IsLate(clock_in_time, work_start) == clock_in_time > work_start

\* the early-departure test without "and work_end.hour < 12"
IsEarly_OvernightOnly(clock_out_time, work_end, overnight_shift) ==
  IF overnight_shift
    THEN HourOf(clock_out_time) < 12 /\ clock_out_time < work_end
    ELSE clock_out_time < work_end

\* the early-departure test of the two branches on overnight_shift
IsEarly(clock_out_time, work_end, overnight_shift) ==
  IF overnight_shift /\ HourOf(work_end) < 12
    THEN HourOf(clock_out_time) < 12 /\ clock_out_time < work_end
    ELSE clock_out_time < work_end

classify_attendance(clock_in, clock_out, work_start, work_end, overnight_shift, tz) ==
  IF IsIncomplete(clock_in, clock_out)
    THEN [ is_outlier |-> FALSE, is_late_arrival |-> FALSE,
           is_early_departure |-> FALSE, is_incomplete |-> TRUE,
           reasons |-> IF clock_in = None /\ clock_out = None
                         THEN <<Sentence("Missing both clock-in and clock-out", 0)>>
                         ELSE IF clock_in = None
                           THEN <<Sentence("Missing clock-in", 0)>>
                           ELSE <<Sentence("Missing clock-out", 0)>> ]
    ELSE
      LET clock_in_time == TimeOf(AsTimezone(clock_in, tz))
          clock_out_time == TimeOf(AsTimezone(clock_out, tz))
          late == IsLate(clock_in_time, work_start)
          early == IsEarly(clock_out_time, work_end, overnight_shift)
          lateNote ==
            IF late
              THEN <<Sentence("Late arrival", (clock_in_time - work_start) \div 60)>>
              ELSE <<>>
          earlyNote ==
            IF early
              THEN <<Sentence("Left early", (work_end - clock_out_time) \div 60)>>
              ELSE <<>>
      IN [ is_outlier |-> FALSE, is_late_arrival |-> late,
           is_early_departure |-> early, is_incomplete |-> FALSE,
           reasons |-> lateNote \o earlyNote ]

\* the naive local bounds of the shift window of shift_date
window_start_local(shift_date, work_start, buffer_hours) ==
  Combine(shift_date, work_start) - buffer_hours * Hour

\* the end bound on shift_date itself, also when overnight_shift is true
window_end_local_SameDay(shift_date, work_end, overnight_shift, buffer_hours) ==
  Combine(shift_date, work_end) + buffer_hours * Hour

window_end_local(shift_date, work_end, overnight_shift, buffer_hours) ==
  IF overnight_shift
    THEN Combine(shift_date + 1, work_end) + buffer_hours * Hour
    ELSE Combine(shift_date, work_end) + buffer_hours * Hour

\* the window test with the start bound excluded
is_punch_in_shift_window_open(punch_datetime, shift_date, work_start, work_end, overnight_shift, tz, buffer_hours) ==
  LET window_start == Localize(window_start_local(shift_date, work_start, buffer_hours), tz)
      window_end == Localize(window_end_local(shift_date, work_end, overnight_shift, buffer_hours), tz)
  IN window_start < punch_datetime /\ punch_datetime <= window_end

is_punch_in_shift_window(punch_datetime, shift_date, work_start, work_end, overnight_shift, tz, buffer_hours) ==
  LET window_start == Localize(window_start_local(shift_date, work_start, buffer_hours), tz)
      window_end == Localize(window_end_local(shift_date, work_end, overnight_shift, buffer_hours), tz)
  IN window_start <= punch_datetime /\ punch_datetime <= window_end

\* the reason text: template, the HH:MM it prints (in minutes) and the
\* number of seconds the printed hours are computed from
Reason(text, punch_time, secs) ==
  [text |-> text, at |-> punch_time \div 60, secs |-> secs]

determine_outlier_reason(punch_datetime, shift_date, work_start, work_end, overnight_shift, tz, buffer_hours) ==
  LET punch_time == TimeOf(AsTimezone(punch_datetime, tz))
      earliest_acceptable == (work_start - buffer_hours * Hour + Day) % Day
      latest_acceptable == (work_end + buffer_hours * Hour) % Day
  IN IF overnight_shift
       THEN IF punch_time < earliest_acceptable /\ HourOf(punch_time) >= 12
              THEN Reason("before shift window starts", punch_time,
                          earliest_acceptable - punch_time)
            ELSE IF punch_time > latest_acceptable /\ HourOf(punch_time) < 12
              THEN Reason("after shift window ends", punch_time,
                          punch_time - latest_acceptable)
            ELSE IF 6 <= HourOf(punch_time) /\ HourOf(punch_time) <= 17
              THEN Reason("during day hours for overnight shift", punch_time, 0)
            ELSE Reason("outside shift window", punch_time, 0)
       ELSE IF punch_time < earliest_acceptable
              THEN Reason("before shift starts", punch_time,
                          earliest_acceptable - punch_time)
              ELSE Reason("after shift ends", punch_time,
                          punch_time - latest_acceptable)

\* ------------------------------------------------------------ the tables
Rows(table) == BagToSet(table)

\* a RawAttendance row; id is its primary key, numbered among the rows of
\* one (device, user_id, timestamp)
RawRow(device, user_id, timestamp) ==
  [device |-> device, user_id |-> user_id, timestamp |-> timestamp, id |-> 1]

RawKeyIs(r, device, user_id, timestamp) ==
  r.device = device /\ r.user_id = user_id /\ r.timestamp = timestamp

\* RawAttendance.objects.create in the place of get_or_create
RawCreate(table, device, user_id, timestamp) ==
  LET found == {r \in table : RawKeyIs(r, device, user_id, timestamp)}
  IN table \cup {[RawRow(device, user_id, timestamp) EXCEPT !.id = Cardinality(found) + 1]}

\* RawAttendance.objects.get_or_create(device, user_id, timestamp, defaults)
RawGetOrCreate(table, device, user_id, timestamp) ==
  LET found == {r \in table : RawKeyIs(r, device, user_id, timestamp)}
  IN IF found # {} THEN table ELSE table \cup {RawRow(device, user_id, timestamp)}

\* the loop over the attendance list of one poll; since is a naive datetime
\* on the clock of TIME_ZONE, or None
RECURSIVE StoreAttendances(_, _, _, _, _)
StoreAttendances(acc, device, attendances, since, tz) ==
  IF attendances = <<>> THEN acc
  ELSE LET attendance == Head(attendances)
           local_dt == Localize(attendance.timestamp, tz)
           utc_ts == AsTimezone(local_dt, 0)
           since_aware == AsTimezone(Localize(since, TIME_ZONE), 0)
           table == IF since # None /\ utc_ts < since_aware
                      THEN acc.raw
                      ELSE RawGetOrCreate(acc.raw, device, attendance.user_id, utc_ts)
       IN The({ StoreAttendances(a, device, Tail(attendances), since, tz) :
                  a \in { [ raw |-> table,
                            new_records |-> acc.new_records
                              + Cardinality(table) - Cardinality(acc.raw) ] } })

\* fetch_attendance(device, since) when the terminal answers with the list
\* attendances of [user_id, timestamp], timestamp naive on the device's clock
fetch_attendance(rawRows, device, attendances, since, tzs) ==
  LET r == StoreAttendances([raw |-> rawRows, new_records |-> 0], device,
                            attendances, since, tzs[device])
  IN [ raw |-> r.raw, total_fetched |-> Len(attendances),
       new_records |-> r.new_records ]

\* QuerySet.filter(timestamp__date=d): the date on the clock of TIME_ZONE
timestamp__date(ts) == DateOf(AsTimezone(ts, TIME_ZONE))

Merge(row, defaults) ==
  [f \in DOMAIN row |-> IF f \in DOMAIN defaults THEN defaults[f] ELSE row[f]]

\* a ProcessedAttendance row with the field defaults of the model
ProcessedAttendance(device, user_id, shift_date) ==
  [ device |-> device, user_id |-> user_id, shift_date |-> shift_date,
    shift_start_time |-> None, shift_end_time |-> None,
    earliest_punch |-> None, latest_punch |-> None, punch_count |-> 0,
    is_late_arrival |-> FALSE, is_early_departure |-> FALSE,
    is_incomplete |-> FALSE, notes |-> <<>>, is_outlier |-> FALSE,
    synced_to_crm |-> FALSE, sync_attempts |-> 0, last_sync_attempt |-> None,
    counted |-> {},    \* history: the punches punch_count counts
    sent |-> <<>> ]    \* history: the payload the CRM accepted for the row

\* an OutlierPunch row with the field defaults of the model
OutlierPunch(device, user_id, punch_datetime) ==
  [ device |-> device, user_id |-> user_id, punch_datetime |-> punch_datetime,
    reason |-> Reason("", 0, 0), associated_shift_date |-> None,
    reviewed |-> FALSE ]

ProcessedKeyIs(r, device, user_id, shift_date) ==
  r.device = device /\ r.user_id = user_id /\ r.shift_date = shift_date

OutlierKeyIs(r, device, user_id, punch_datetime) ==
  r.device = device /\ r.user_id = user_id /\ r.punch_datetime = punch_datetime

\* the bag without the rows of a set
Without(table, gone) ==
  [r \in (DOMAIN table) \ gone |-> table[r]]

\* ProcessedAttendance.objects.create in the place of update_or_create
ProcessedCreate(table, device, user_id, shift_date, defaults) ==
  table (+) SetToBag({Merge(ProcessedAttendance(device, user_id, shift_date), defaults)})

\* ProcessedAttendance.objects.update_or_create(device, user_id, shift_date, defaults)
ProcessedUpdateOrCreate(table, device, user_id, shift_date, defaults) ==
  LET found == {r \in Rows(table) : ProcessedKeyIs(r, device, user_id, shift_date)}
      base == IF found = {} THEN ProcessedAttendance(device, user_id, shift_date)
                            ELSE CHOOSE r \in found : TRUE
  IN Without(table, found) (+) SetToBag({Merge(base, defaults)})

\* OutlierPunch.objects.create in the place of update_or_create
OutlierCreate(table, device, user_id, punch_datetime, defaults) ==
  table (+) SetToBag({Merge(OutlierPunch(device, user_id, punch_datetime), defaults)})

\* OutlierPunch.objects.update_or_create(device, user_id, punch_datetime, defaults)
OutlierUpdateOrCreate(table, device, user_id, punch_datetime, defaults) ==
  LET found == {r \in Rows(table) : OutlierKeyIs(r, device, user_id, punch_datetime)}
      base == IF found = {} THEN OutlierPunch(device, user_id, punch_datetime)
                            ELSE CHOOSE r \in found : TRUE
  IN Without(table, found) (+) SetToBag({Merge(base, defaults)})

\* ------------------------------------------------- one unit of processing
\* Device.objects.first(): Device.Meta orders by name
DeviceOrder == <<"d1", "d2">>
FirstDevice == DeviceOrder[1]

\* the RawAttendance rows with the smallest / largest timestamp of a set
\* (the first and the last row of order_by('timestamp'))
First(punches) ==
  CHOOSE p \in punches : \A q \in punches : p.timestamp <= q.timestamp
Last(punches) ==
  CHOOSE p \in punches : \A q \in punches : q.timestamp <= p.timestamp

\* the rows of a set in the order of RawAttendance.Meta.ordering
RECURSIVE NewestFirst(_)
NewestFirst(punches) ==
  IF punches = {} THEN <<>>
  ELSE LET p == Last(punches) IN <<p>> \o NewestFirst(punches \ {p})

\* a list of rows sorted by ascending timestamp
RECURSIVE SortedByTimestamp(_)
SortedByTimestamp(rows) ==
  IF rows = <<>> THEN <<>>
  ELSE LET i == CHOOSE k \in 1..Len(rows) :
                  /\ \A j \in 1..Len(rows) : rows[k].timestamp <= rows[j].timestamp
                  /\ \A j \in 1..(k - 1) : rows[j].timestamp # rows[k].timestamp
       IN <<rows[i]>> \o
          SortedByTimestamp(SubSeq(rows, 1, i - 1) \o SubSeq(rows, i + 1, Len(rows)))

\* the queryset listed without .order_by('timestamp')
order_by_default(rows) == rows

\* queryset.order_by('timestamp') on a queryset that lists rows
order_by_timestamp(rows) == SortedByTimestamp(rows)

\* the loop of STEP 3: one update_or_create per out-of-window punch
RECURSIVE CreateOutlierPunches(_, _, _, _, _)
CreateOutlierPunches(table, punches, user_id, attendance_date, cfg) ==
  IF punches = {} THEN table
  ELSE LET punch == First(punches)
           reason == determine_outlier_reason(punch.timestamp, attendance_date,
                        cfg.work_start, cfg.work_end, cfg.overnight_shift,
                        cfg.device_tz, cfg.buffer_hours)
       IN The({ CreateOutlierPunches(t, punches \ {punch}, user_id,
                                     attendance_date, cfg) :
                  t \in { OutlierUpdateOrCreate(table, punch.device, user_id,
                            punch.timestamp,
                            [ reason |-> reason,
                              associated_shift_date |-> attendance_date,
                              reviewed |-> FALSE ]) } })

\* "return None" as soon as no punch is in the window
NoRecordsFound_InWindow(all_punches, in_window_punches) == in_window_punches = {}

\* "if not all_punches: return None"
NoRecordsFound(all_punches, in_window_punches) == all_punches = {}

\* process_attendance_for_date(user_id, attendance_date, device) run on the
\* tables tabs = [processed, outliers] with raw table rawRows.  Returns the
\* tables afterwards, the returned row (ret = {} for a None return) and the
\* candidate, in-window and out-of-window punches of the unit.
process_attendance_for_date(user_id, attendance_date, device, tabs, rawRows, stg, tzs) ==
  LET work_start == parse_work_time(stg.WORK_START_TIME)
      work_end == parse_work_time(stg.WORK_END_TIME)
      overnight_shift == stg.OVERNIGHT_SHIFT
      buffer_hours == stg.OVERNIGHT_SHIFT_BUFFER_HOURS
      device_obj == IF device # NoDevice THEN device ELSE FirstDevice
      tz == tzs[device_obj]
      cfg == [ work_start |-> work_start, work_end |-> work_end,
               overnight_shift |-> overnight_shift, device_tz |-> tz,
               buffer_hours |-> buffer_hours ]
      query_start ==
        IF overnight_shift
          THEN Localize(Combine(attendance_date, work_start)
                          - (stg.OUTLIER_EARLY_CLOCK_IN_HOURS + 2) * Hour, tz)
          ELSE Localize(Combine(attendance_date, work_start)
                          - (buffer_hours + 2) * Hour, tz)
      query_end ==
        IF overnight_shift
          THEN Localize(Combine(attendance_date + 1, work_end)
                          + (buffer_hours + 2) * Hour, tz)
          ELSE Localize(Combine(attendance_date, work_end)
                          + (buffer_hours + 2) * Hour, tz)
      all_punches ==
        { p \in rawRows : /\ p.user_id = user_id
                          /\ p.timestamp >= query_start
                          /\ p.timestamp <= query_end
                          /\ (device # NoDevice => p.device = device) }
      in_window_punches ==
        { p \in all_punches :
            is_punch_in_shift_window(p.timestamp, attendance_date, work_start,
                                     work_end, overnight_shift, tz, buffer_hours) }
      out_of_window_punches == all_punches \ in_window_punches
      \* list(RawAttendance.objects.filter(query).order_by('timestamp')) and
      \* the in-window list the loop of STEP 2 appends to
      in_window_list ==
        SelectSeq(order_by_timestamp(NewestFirst(all_punches)),
                  LAMBDA p : p \in in_window_punches)
      unit == [ user_id |-> user_id, shift_date |-> attendance_date,
                device |-> device_obj,
                all_punches |-> all_punches,
                in_window_punches |-> in_window_punches,
                out_of_window_punches |-> out_of_window_punches ]
      outliersAfter ==
        CreateOutlierPunches(tabs.outliers, out_of_window_punches, user_id,
                             attendance_date, cfg)
      nOut == Cardinality(out_of_window_punches)
      Returned(table) ==
        { r \in Rows(table) : ProcessedKeyIs(r, device_obj, user_id, attendance_date) }
      Result(table) ==
        [ processed |-> table, outliers |-> outliersAfter,
          ret |-> Returned(table), unit |-> unit ]
  IN IF NoRecordsFound(all_punches, in_window_punches)
       THEN [ processed |-> tabs.processed, outliers |-> tabs.outliers,
              ret |-> {}, unit |-> unit ]
     ELSE IF in_window_punches = {}
       THEN Result(
                ProcessedUpdateOrCreate(tabs.processed, device_obj, user_id,
                  attendance_date,
                  [ shift_start_time |-> work_start, shift_end_time |-> work_end,
                    earliest_punch |-> None, latest_punch |-> None,
                    punch_count |-> 0, is_incomplete |-> TRUE,
                    is_late_arrival |-> FALSE, is_early_departure |-> FALSE,
                    notes |-> <<Sentence("No punches within shift window; outlier punches recorded separately", nOut)>>,
                    is_outlier |-> FALSE, counted |-> {} ]))
     ELSE
       LET earliest_punch == in_window_list[1]
           latest_punch == in_window_list[Len(in_window_list)]
           punch_count == Len(in_window_list)
           clock_in == earliest_punch.timestamp
           clock_out == IF Len(in_window_list) > 1
                          THEN latest_punch.timestamp ELSE None
           c == classify_attendance(clock_in, clock_out, work_start, work_end,
                                    overnight_shift, tz)
           notes == c.reasons \o
                    (IF out_of_window_punches # {}
                       THEN <<Sentence("outlier punch(es) recorded separately", nOut)>>
                       ELSE <<>>)
       IN Result(
              ProcessedUpdateOrCreate(tabs.processed, device_obj, user_id,
                attendance_date,
                [ shift_start_time |-> work_start, shift_end_time |-> work_end,
                  earliest_punch |-> clock_in, latest_punch |-> clock_out,
                  punch_count |-> punch_count,
                  is_late_arrival |-> c.is_late_arrival,
                  is_early_departure |-> c.is_early_departure,
                  is_incomplete |-> c.is_incomplete,
                  notes |-> notes, is_outlier |-> FALSE,
                  counted |-> {p.timestamp : p \in in_window_punches} ]))

\* ------------------------------------------------------------- the batch
UserOrder == <<"u1">>
IndexIn(seq, x) == CHOOSE i \in 1..Len(seq) : seq[i] = x

\* .values('user_id', 'device_id', 'timestamp__date').distinct()
UniqueCombinations(rawRows) ==
  { [user_id |-> p.user_id, device_id |-> p.device,
     date |-> timestamp__date(p.timestamp)] : p \in rawRows }

\* .order_by('user_id', 'device_id', 'timestamp__date')
ComboBefore(a, b) ==
  LET ua == IndexIn(UserOrder, a.user_id)
      ub == IndexIn(UserOrder, b.user_id)
      da == IndexIn(DeviceOrder, a.device_id)
      db == IndexIn(DeviceOrder, b.device_id)
  IN \/ ua < ub
     \/ ua = ub /\ da < db
     \/ ua = ub /\ da = db /\ a.date <= b.date

RECURSIVE OrderCombos(_)
OrderCombos(combos) ==
  IF combos = {} THEN <<>>
  ELSE LET c == CHOOSE x \in combos : \A y \in combos : ComboBefore(x, y)
       IN <<c>> \o OrderCombos(combos \ {c})

\* the shift date the overnight discovery loop derives for one punch
DiscoveredShiftDate(punch, punch_date, work_start, tz) ==
  LET punch_time == TimeOf(AsTimezone(punch.timestamp, tz))
  IN IF punch_time >= work_start THEN punch_date ELSE punch_date - 1

\* the punches the loop of one combination looks at
EveningPunches(rawRows, combo) ==
  { p \in rawRows : /\ p.user_id = combo.user_id
                    /\ p.device = combo.device_id
                    /\ timestamp__date(p.timestamp) = combo.date }

\* shift_dates of one combination
ShiftDates(rawRows, combo, work_start, tz) ==
  { DiscoveredShiftDate(p, combo.date, work_start, tz) :
      p \in EveningPunches(rawRows, combo) }

\* a set of dates as the sequence the for loop visits; asc picks the order
DateSeq(dates, asc) ==
  IF dates = {} THEN <<>>
  ELSE LET lo == CHOOSE d \in dates : \A e \in dates : d <= e
           hi == CHOOSE d \in dates : \A e \in dates : e <= d
       IN IF lo = hi THEN <<lo>>
          ELSE IF asc THEN <<lo, hi>> ELSE <<hi, lo>>

ShiftKey(user_id, device_id, shift_date) ==
  [user_id |-> user_id, device_id |-> device_id, shift_date |-> shift_date]

\* the shift keys of the run in the order the loops reach them
RECURSIVE ShiftKeys(_, _, _, _, _)
ShiftKeys(combos, rawRows, stg, tzs, asc) ==
  IF combos = <<>> THEN <<>>
  ELSE LET combo == Head(combos)
           dates == IF stg.OVERNIGHT_SHIFT
                      THEN DateSeq(ShiftDates(rawRows, combo,
                                     parse_work_time(stg.WORK_START_TIME),
                                     tzs[combo.device_id]), asc[combo.date])
                      ELSE <<combo.date>>
       IN [i \in 1..Len(dates) |->
             ShiftKey(combo.user_id, combo.device_id, dates[i])]
          \o ShiftKeys(Tail(combos), rawRows, stg, tzs, asc)

\* the store failing under a unit: the keys whose processing raises, the
\* statement that raises ("query": the RawAttendance query, before any
\* write; "processed": the ProcessedAttendance update_or_create, after the
\* OutlierPunch writes) and whether it raises on every attempt
NoFault == [keys |-> {}, at |-> "query", persistent |-> FALSE]

Raises(key, acc, fault, unit) ==
  /\ key \in fault.keys
  /\ fault.persistent \/ key \notin {f.key : f \in acc.failures}
  /\ fault.at = "processed" => unit.all_punches # {}

\* the state of one run: the tables, processed_shifts, the results dict and
\* (history) the units that returned, the bag of keys attempted, the
\* attempts that raised, and whether the try block is being left
StartRun(tabs) ==
  [ processed |-> tabs.processed, outliers |-> tabs.outliers,
    processed_shifts |-> {}, units |-> {}, attempts |-> EmptyBag, failures |-> {},
    raised |-> FALSE,
    results |-> [total_records |-> 0, processed |-> 0,
                 failed |-> 0, outliers |-> 0] ]

\* the statements after the call of process_attendance_for_date in a try
\* block, r being what the call does when it returns
Attempted(key, acc, fault, r) ==
  IF Raises(key, acc, fault, r.unit)
    THEN [ acc EXCEPT
                !.outliers = IF fault.at = "processed" THEN r.outliers ELSE @,
                !.attempts = @ (+) SetToBag({key}),
                !.failures = @ \cup {[key |-> key, at |-> fault.at, unit |-> r.unit]},
                !.raised = TRUE ]
    ELSE [ acc EXCEPT
                !.processed = r.processed,
                !.outliers = r.outliers,
                !.processed_shifts = @ \cup {key},
                !.units = @ \cup {r.unit},
                !.attempts = @ (+) SetToBag({key}),
                !.results =
                  [ total_records |-> acc.results.total_records + 1,
                    processed |-> acc.results.processed
                                    + (IF r.ret # {} THEN 1 ELSE 0),
                    failed |-> acc.results.failed,
                    outliers |-> acc.results.outliers
                      + (IF \E row \in r.ret : row.is_outlier THEN 1 ELSE 0) ] ]

\* one call of process_attendance_for_date inside a try block
Attempt(key, acc, rawRows, stg, tzs, fault) ==
  The({ Attempted(key, acc, fault, r) :
          r \in { process_attendance_for_date(key.user_id, key.shift_date,
                    key.device_id,
                    [processed |-> acc.processed, outliers |-> acc.outliers],
                    rawRows, stg, tzs) } })

\* the except clauses of a try block: count the failure and go on
Except(acc) ==
  IF acc.raised
    THEN [acc EXCEPT !.raised = FALSE, !.results.failed = @ + 1]
    ELSE acc

\* "for shift_date in shift_dates" of one combination, inside its try block
RECURSIVE RunShiftDates(_, _, _, _, _, _, _)
RunShiftDates(dates, combo, acc, rawRows, stg, tzs, fault) ==
  IF dates = <<>> \/ acc.raised THEN acc
  ELSE LET shift_key == ShiftKey(combo.user_id, combo.device_id, Head(dates))
       IN The({ RunShiftDates(Tail(dates), combo, a, rawRows, stg, tzs, fault) :
                  a \in { IF shift_key \in acc.processed_shifts
                            THEN acc
                            ELSE Attempt(shift_key, acc, rawRows, stg, tzs, fault) } })

\* "for combo in unique_combinations" of both branches
RECURSIVE RunCombos(_, _, _, _, _, _, _)
RunCombos(combos, acc, rawRows, stg, tzs, asc, fault) ==
  IF combos = <<>> THEN acc
  ELSE LET combo == Head(combos)
           dates == IF stg.OVERNIGHT_SHIFT
                      THEN DateSeq(ShiftDates(rawRows, combo,
                                     parse_work_time(stg.WORK_START_TIME),
                                     tzs[combo.device_id]), asc[combo.date])
                      ELSE <<combo.date>>
       IN The({ RunCombos(Tail(combos), Except(a), rawRows, stg, tzs, asc, fault) :
                  a \in { RunShiftDates(dates, combo, acc, rawRows, stg, tzs,
                                        fault) } })

\* a loop whose try block holds one call: process the keys one by one
RECURSIVE RunKeys(_, _, _, _, _)
RunKeys(keys, acc, rawRows, stg, tzs) ==
  IF keys = <<>> THEN acc
  ELSE The({ RunKeys(Tail(keys), Except(a), rawRows, stg, tzs) :
               a \in { Attempt(Head(keys), acc, rawRows, stg, tzs, NoFault) } })

process_all_unprocessed_attendance(tabs, rawRows, stg, tzs, asc, fault) ==
  RunCombos(OrderCombos(UniqueCombinations(rawRows)), StartRun(tabs),
            rawRows, stg, tzs, asc, fault)

\* the shift key overnight discovery derives for every raw punch
DiscoveryMap(rawRows, stg, tzs) ==
  { [ punch |-> p,
      shift_date |-> DiscoveredShiftDate(p, timestamp__date(p.timestamp),
                        parse_work_time(stg.WORK_START_TIME), tzs[p.device]) ] :
      p \in rawRows }

\* process_all_attendance_for_date(target_date), device_id left at None:
\* every (user, device) with a punch on target_date is processed for it
process_all_attendance_for_date(tabs, rawRows, target_date, stg, tzs) ==
  LET combos == { c \in UniqueCombinations(rawRows) : c.date = target_date }
      ordered == OrderCombos(combos)
      keys == [i \in 1..Len(ordered) |->
                 ShiftKey(ordered[i].user_id, ordered[i].device_id, target_date)]
  IN RunKeys(keys, StartRun(tabs), rawRows, stg, tzs)

\* process_attendance_for_date_range(start_date, end_date), device left at
\* None: one record per raw row of the range, newest first, each processed
\* for the calendar date of the row
process_attendance_for_date_range(tabs, rawRows, start_date, end_date, stg, tzs) ==
  LET raw_records ==
        NewestFirst({ p \in rawRows :
                        /\ timestamp__date(p.timestamp) >= start_date
                        /\ timestamp__date(p.timestamp) <= end_date })
      keys == [i \in 1..Len(raw_records) |->
                 ShiftKey(raw_records[i].user_id, raw_records[i].device,
                          timestamp__date(raw_records[i].timestamp))]
  IN RunKeys(keys, StartRun(tabs), rawRows, stg, tzs)

\* the days from start_date to end_date in the order of the while loop
RECURSIVE DaysFrom(_, _)
DaysFrom(current_date, end_date) ==
  IF current_date > end_date THEN <<>>
  ELSE <<current_date>> \o DaysFrom(current_date + 1, end_date)

\* the user_ids the view reads from ProcessedAttendance for one day
ReprocessKeys(table, current_date, device) ==
  LET user_ids == { r.user_id : r \in { x \in Rows(table) :
                      /\ x.shift_date = current_date
                      /\ device # NoDevice => x.device = device } }
      users == SelectSeq(UserOrder, LAMBDA u : u \in user_ids)
  IN [i \in 1..Len(users) |-> ShiftKey(users[i], device, current_date)]

RECURSIVE ReprocessDays(_, _, _, _, _, _)
ReprocessDays(days, acc, device, rawRows, stg, tzs) ==
  IF days = <<>> THEN acc
  ELSE The({ ReprocessDays(Tail(days), a, device, rawRows, stg, tzs) :
               a \in { RunKeys(ReprocessKeys(acc.processed, Head(days), device),
                               acc, rawRows, stg, tzs) } })

\* the view reprocess_attendance: POST start_date, end_date, device_id
reprocess_attendance(tabs, rawRows, start_date, end_date, device, stg, tzs) ==
  ReprocessDays(DaysFrom(start_date, end_date), StartRun(tabs), device,
                rawRows, stg, tzs)

\* the fetch loop of sync_day: a device is polled, with since at the start of
\* sync_date, unless RawAttendance holds a row of it for sync_date
RECURSIVE SyncDevices(_, _, _, _, _)
SyncDevices(devices, acc, sync_date, attendances, tzs) ==
  IF devices = <<>> THEN acc
  ELSE LET device == Head(devices)
           existing_count ==
             Cardinality({ p \in acc.raw : /\ p.device = device
                                           /\ timestamp__date(p.timestamp) = sync_date })
           r == fetch_attendance(acc.raw, device, attendances[device],
                                 Combine(sync_date, 0), tzs)
       IN The({ SyncDevices(Tail(devices), a, sync_date, attendances, tzs) :
                  a \in { IF existing_count > 0 THEN acc
                          ELSE The({ [ raw |-> f.raw,
                                       total_fetched |-> acc.total_fetched
                                                           + f.total_fetched,
                                       new_records |-> acc.new_records
                                                         + f.new_records ] :
                                     f \in {r} }) } })

\* ---------------------------------------------------------- the CRM sync
\* settings.CRM_MAX_RETRIES, which retry_failed_syncs_task passes on
CRM_MAX_RETRIES == 3
\* sync_attempts is counted up to MaxAttempts; from CRM_MAX_RETRIES on no
\* query of the sync layer tells two values apart
MaxAttempts == 3

\* prepare_attendance_data: the payload of a row (date, clock_in and
\* clock_out are the legacy copies of shift_date and the two punches)
prepare_attendance_data(attendance) ==
  [ user_id |-> attendance.user_id, date |-> attendance.shift_date,
    clock_in |-> attendance.earliest_punch,
    clock_out |-> attendance.latest_punch,
    is_outlier |-> attendance.is_outlier, device_name |-> attendance.device ]

\* ProcessedAttendance.mark_synced at the time now
mark_synced(attendance, now) ==
  [attendance EXCEPT !.synced_to_crm = TRUE, !.last_sync_attempt = now]

\* ProcessedAttendance.increment_sync_attempts at the time now
increment_sync_attempts(attendance, now) ==
  [attendance EXCEPT
     !.sync_attempts = IF @ < MaxAttempts THEN @ + 1 ELSE MaxAttempts,
     !.last_sync_attempt = now]

\* session.post(settings.CRM_API_URL, json=data): the status of the response
status_code(data, endpoint) ==
  IF data.date \in endpoint.rejected THEN 400 ELSE 200

\* send_to_crm(attendance): the row afterwards and the success flag
send_to_crm(attendance, now, endpoint) ==
  LET data == prepare_attendance_data(attendance)
  IN IF status_code(data, endpoint) \in {200, 201}
       THEN [ success |-> TRUE,
              row |-> [mark_synced(attendance, now) EXCEPT !.sent = <<data>>] ]
       ELSE [ success |-> FALSE,
              row |-> increment_sync_attempts(attendance, now) ]

\* sync_batch(attendances): one send_to_crm per row of the list
RECURSIVE sync_batch(_, _, _, _)
sync_batch(acc, attendances, now, endpoint) ==
  IF attendances = <<>> THEN acc
  ELSE LET attendance == Head(attendances)
           r == send_to_crm(attendance, now, endpoint)
       IN The({ sync_batch(a, Tail(attendances), now, endpoint) :
                  a \in { [ table |-> Without(acc.table, {attendance})
                                        (+) SetToBag({r.row}),
                            sent |-> Append(acc.sent,
                                       ShiftKey(attendance.user_id, attendance.device,
                                                attendance.shift_date)),
                            successful |-> acc.successful
                                             + (IF r.success THEN 1 ELSE 0),
                            failed |-> acc.failed
                                         + (IF r.success THEN 0 ELSE 1) ] } })

StartSync(table) ==
  [table |-> table, sent |-> <<>>, successful |-> 0, failed |-> 0]

\* rows as the list of a queryset ordered by a key: before holds the pairs
\* <<a, b>> where a sorts before b or ties with it
RECURSIVE OrderedBy(_, _)
OrderedBy(rows, before) ==
  IF rows = {} THEN <<>>
  ELSE LET r == CHOOSE x \in rows : \A y \in rows : <<x, y>> \in before
       IN <<r>> \o OrderedBy(rows \ {r}, before)

\* queryset[:limit]
Slice(rows, limit) ==
  SubSeq(rows, 1, IF Len(rows) < limit THEN Len(rows) ELSE limit)

\* .order_by('date', 'user_id')
ByDateUser(rows) ==
  { <<a, b>> \in rows \X rows :
      \/ a.shift_date < b.shift_date
      \/ /\ a.shift_date = b.shift_date
         /\ IndexIn(UserOrder, a.user_id) <= IndexIn(UserOrder, b.user_id) }

\* .order_by('sync_attempts', 'date')
ByAttemptsDate(rows) ==
  { <<a, b>> \in rows \X rows :
      \/ a.sync_attempts < b.sync_attempts
      \/ a.sync_attempts = b.sync_attempts /\ a.shift_date <= b.shift_date }

sync_unsynced_attendance(table, limit, now, endpoint) ==
  LET rows == { r \in Rows(table) : ~r.synced_to_crm }
      unsynced == Slice(OrderedBy(rows, ByDateUser(rows)), limit)
  IN sync_batch(StartSync(table), unsynced, now, endpoint)

retry_failed_syncs(table, max_attempts, now, endpoint) ==
  LET rows == { r \in Rows(table) : /\ ~r.synced_to_crm
                                     /\ r.sync_attempts > 0
                                     /\ r.sync_attempts < max_attempts }
      failed == OrderedBy(rows, ByAttemptsDate(rows))
  IN sync_batch(StartSync(table), failed, now, endpoint)

\* ----------------------------------------------------------- the actions
\* Device.objects.filter(enabled=True): the devices of the registry, by name
AllDevices == SelectSeq(DeviceOrder, LAMBDA d : d \in DOMAIN device_tz)

UnitKeys(units) == { <<u.device, u.user_id, u.shift_date>> : u \in units }

NoFetch == [total_fetched |-> 0, new_records |-> 0]
NoCall == [args |-> <<>>]

\* the record of an operation; attempts, failures, fetched and call (the
\* arguments and local values of a function applied on its own) are filled
\* in by the operations that have them
Op(kind, target, units, discovery, results, again, deleted) ==
  [ kind |-> kind, target |-> target, units |-> units, discovery |-> discovery,
    results |-> results, again |-> again, deleted |-> deleted,
    attempts |-> EmptyBag, failures |-> {}, fetched |-> NoFetch,
    call |-> NoCall ]

NoResults == [total_records |-> 0, processed |-> 0, failed |-> 0, outliers |-> 0]

IsProcessing(op) == op.kind \in {"batch", "date"}

\* the operation repeats keys the operation before it processed
Again(units) ==
  /\ IsProcessing(lastOp)
  /\ units # {}
  /\ UnitKeys(units) \subseteq UnitKeys(lastOp.units)

Tables == [processed |-> processed, outliers |-> outliers]

\* CRM_SYNC_BATCH_SIZE of settings.py and an endpoint that accepts every record
DefaultCrm == [batch_size |-> 100, rejected |-> {}]

Init ==
  /\ settings \in Settings
  /\ device_tz \in [Devices -> DeviceTimezones]
  /\ raw = {}
  /\ processed = EmptyBag
  /\ outliers = EmptyBag
  /\ lastOp = Op("init", None, {}, {}, NoResults, FALSE, {})
  /\ created = 0
  /\ crm = DefaultCrm

\* fetch_attendance: the terminal delivers one event with a naive local
\* timestamp; it is stored under its UTC instant unless the key exists
FetchAttendance(device, user_id, day, tod) ==
  \E r \in { fetch_attendance(raw, device,
               <<[user_id |-> user_id, timestamp |-> Combine(day, tod)]>>,
               None, device_tz) } :
     /\ created + r.new_records <= MaxPunches
     /\ raw' = r.raw
     /\ created' = created + r.new_records
     /\ lastOp' = [ Op("fetch", None, {}, {}, NoResults, FALSE, {})
                      EXCEPT !.fetched = [total_fetched |-> r.total_fetched,
                                          new_records |-> r.new_records] ]
     /\ UNCHANGED <<settings, device_tz, crm, processed, outliers>>

ProcessAllAttendanceForDate(target_date) ==
  /\ \E p \in raw : timestamp__date(p.timestamp) = target_date
  /\ \E r \in { process_all_attendance_for_date(Tables, raw, target_date,
                                                 settings, device_tz) } :
        /\ processed' = r.processed
        /\ outliers' = r.outliers
        /\ lastOp' = Op("date", target_date, r.units, {}, r.results,
                        Again(r.units), {})
  /\ UNCHANGED <<settings, device_tz, crm, raw, created>>

ProcessAllUnprocessedAttendance(asc, fault) ==
  /\ raw # {}
  /\ \E r \in { process_all_unprocessed_attendance(Tables, raw, settings,
                                                    device_tz, asc, fault) } :
        /\ processed' = r.processed
        /\ outliers' = r.outliers
        /\ lastOp' = [ Op("batch", None, r.units,
                          IF settings.OVERNIGHT_SHIFT
                            THEN DiscoveryMap(raw, settings, device_tz) ELSE {},
                          r.results, Again(r.units), {})
                         EXCEPT !.attempts = r.attempts,
                                !.failures = r.failures ]
  /\ UNCHANGED <<settings, device_tz, crm, raw, created>>

\* outlier_mark_reviewed: POST outlier_id, reviewed
OutlierMarkReviewed(outlier, reviewed) ==
  /\ outlier \in Rows(outliers)
  /\ outliers' = Without(outliers, {outlier})
                   (+) SetToBag({[outlier EXCEPT !.reviewed = reviewed]})
  /\ lastOp' = Op("review", None, {}, {}, NoResults, FALSE, {})
  /\ UNCHANGED <<settings, device_tz, crm, raw, processed, created>>

\* delete_attendance: POST processed_id, which
DeleteAttendance(row, which) ==
  /\ row \in Rows(processed)
  /\ LET to_delete ==
           (IF which \in {"in", "both"} /\ row.earliest_punch # None
              THEN {row.earliest_punch} ELSE {})
           \cup
           (IF which \in {"out", "both"} /\ row.latest_punch # None
              THEN {row.latest_punch} ELSE {})
         gone == { p \in raw : /\ p.device = row.device
                               /\ p.user_id = row.user_id
                               /\ p.timestamp \in to_delete }
         rest == raw \ gone
         remaining == \E p \in rest : /\ p.device = row.device
                                      /\ p.user_id = row.user_id
                                      /\ timestamp__date(p.timestamp) = row.shift_date
         r == process_attendance_for_date(row.user_id, row.shift_date, row.device,
                                          Tables, rest, settings, device_tz)
     IN /\ raw' = rest
        /\ IF ~remaining
             THEN /\ processed' = Without(processed, {row})
                  /\ outliers' = outliers
                  /\ lastOp' = Op("delete", row.shift_date, {}, {}, NoResults,
                                  FALSE, gone)
             ELSE /\ processed' = r.processed
                  /\ outliers' = r.outliers
                  /\ lastOp' = Op("delete", row.shift_date, {r.unit}, {},
                                  NoResults, FALSE, gone)
  /\ UNCHANGED <<settings, device_tz, crm, created>>

\* process_date_range_task(start_date, end_date)
ProcessAttendanceForDateRange(start_date, end_date) ==
  /\ start_date <= end_date
  /\ \E r \in { process_attendance_for_date_range(Tables, raw, start_date,
                                                   end_date, settings, device_tz) } :
        /\ processed' = r.processed
        /\ outliers' = r.outliers
        /\ lastOp' = Op("range", start_date, r.units, {}, r.results,
                        Again(r.units), {})
  /\ UNCHANGED <<settings, device_tz, crm, raw, created>>

\* reprocess_attendance: POST start_date, end_date, device_id
ReprocessAttendance(start_date, end_date, device) ==
  /\ start_date <= end_date
  /\ \E r \in { reprocess_attendance(Tables, raw, start_date, end_date,
                                      device, settings, device_tz) } :
        /\ processed' = r.processed
        /\ outliers' = r.outliers
        /\ lastOp' = Op("reprocess", start_date, r.units, {}, r.results,
                        Again(r.units), {})
  /\ UNCHANGED <<settings, device_tz, crm, raw, created>>

\* sync_day: POST date; every device answers with its attendance list, then
\* the date is processed
SyncDay(sync_date, attendances) ==
  \E f \in { SyncDevices(AllDevices,
                 [raw |-> raw, total_fetched |-> 0, new_records |-> 0],
                 sync_date, attendances, device_tz) } :
  \E r \in { process_all_attendance_for_date(Tables, f.raw, sync_date, settings,
                                             device_tz) } :
     /\ created + f.new_records <= MaxPunches
     /\ raw' = f.raw
     /\ created' = created + f.new_records
     /\ processed' = r.processed
     /\ outliers' = r.outliers
     /\ lastOp' = [ Op("sync_day", sync_date, r.units, {}, r.results,
                       Again(r.units), {})
                      EXCEPT !.fetched = [total_fetched |-> f.total_fetched,
                                          new_records |-> f.new_records] ]
     /\ UNCHANGED <<settings, device_tz, crm, crm>>

\* the dates on which the raw table holds punches
PunchDates == { timestamp__date(p.timestamp) : p \in raw }

Next ==
  \/ \E d \in Devices, u \in Users, day \in PunchDays, tod \in PunchTods :
       FetchAttendance(d, u, day, tod)
  \/ \E target_date \in PunchDates : ProcessAllAttendanceForDate(target_date)
  \/ \E asc \in [PunchDates -> BOOLEAN] :
       ProcessAllUnprocessedAttendance(asc, NoFault)
  \/ \E outlier \in Rows(outliers), reviewed \in BOOLEAN :
       OutlierMarkReviewed(outlier, reviewed)
  \/ \E row \in Rows(processed), which \in {"in", "out", "both"} :
       DeleteAttendance(row, which)

Spec == Init /\ [][Next]_vars

\* ------------------------------------------- every processing entry point
\* the punches of one local day that lie before, between and inside the
\* windows of the overnight settings
EntryTods == { HM(2, 0), HM(15, 30), HM(20, 45) }

Attendance(user_id, day, tod) ==
  [user_id |-> user_id, timestamp |-> Combine(day, tod)]

\* what a terminal answers to one poll: one event, or the same event twice
Polls ==
  { <<Attendance(u, day, tod)>> : u \in Users, day \in PunchDays, tod \in EntryTods }
  \cup
  { <<Attendance(u, day, tod), Attendance(u, day, tod)>> :
      u \in Users, day \in PunchDays, tod \in EntryTods }

ShiftDatesStored == { r.shift_date : r \in Rows(processed) }

NextEntry ==
  \/ \E d \in Devices, u \in Users, day \in PunchDays, tod \in EntryTods :
       FetchAttendance(d, u, day, tod)
  \/ \E sync_date \in PunchDays, attendances \in [Devices -> Polls] :
       SyncDay(sync_date, attendances)
  \/ \E asc \in [PunchDates -> BOOLEAN] :
       ProcessAllUnprocessedAttendance(asc, NoFault)
  \/ \E target_date \in PunchDates : ProcessAllAttendanceForDate(target_date)
  \/ \E start_date \in PunchDates, end_date \in PunchDates :
       ProcessAttendanceForDateRange(start_date, end_date)
  \/ \E start_date \in ShiftDatesStored, end_date \in ShiftDatesStored,
        device \in Devices \cup {NoDevice} :
       ReprocessAttendance(start_date, end_date, device)

SpecEntry == Init /\ [][NextEntry]_vars

\* ------------------------------------------------- the batch on a failing store
\* punches of two local days: a morning and an evening punch of the first
\* day and a morning punch of the second
FaultEvents ==
  { <<BaseDay, HM(2, 0)>>, <<BaseDay, HM(20, 45)>>, <<BaseDay + 1, HM(2, 0)>> }

\* the shift keys the run discovers from the raw table
DiscoveredKeys ==
  LET keys == ShiftKeys(OrderCombos(UniqueCombinations(raw)), raw, settings,
                        device_tz, [d \in PunchDates |-> TRUE])
  IN { keys[i] : i \in 1..Len(keys) }

Faults ==
  {NoFault} \cup
  { [keys |-> {k}, at |-> a, persistent |-> b] :
      k \in DiscoveredKeys, a \in {"query", "processed"}, b \in BOOLEAN }

NextFault ==
  \/ \E d \in Devices, u \in Users, e \in FaultEvents :
       FetchAttendance(d, u, e[1], e[2])
  \/ \E asc \in [PunchDates -> BOOLEAN], fault \in Faults :
       ProcessAllUnprocessedAttendance(asc, fault)

SpecFault == Init /\ [][NextFault]_vars

\* ------------------------------------------------ the window on its own
MaxBuffer == 2
WindowTimes == { HM(5, 0), HM(8, 0), HM(18, 0), HM(20, 0) }

\* is_punch_in_shift_window applied to arguments of the caller's choice
IsPunchInShiftWindow(punch_datetime, shift_date, work_start, work_end, overnight_shift, tz, buffer_hours) ==
  /\ lastOp' =
       [ Op("window", shift_date, {}, {}, NoResults, FALSE, {}) EXCEPT !.call =
           [ args |-> <<punch_datetime, shift_date, work_start, work_end,
                        overnight_shift, tz, buffer_hours>>,
             work_start |-> work_start, work_end |-> work_end,
             overnight_shift |-> overnight_shift, buffer_hours |-> buffer_hours,
             window_start |->
               Localize(window_start_local(shift_date, work_start, buffer_hours), tz),
             window_end |->
               Localize(window_end_local(shift_date, work_end, overnight_shift,
                                         buffer_hours), tz),
             result |->
               is_punch_in_shift_window(punch_datetime, shift_date, work_start,
                 work_end, overnight_shift, tz, buffer_hours) ] ]
  /\ UNCHANGED <<settings, device_tz, crm, raw, processed, outliers, created>>

NextWindow ==
  \E work_start \in WindowTimes, work_end \in WindowTimes,
     overnight_shift \in BOOLEAN, tz \in DeviceTimezones,
     buffer_hours \in 0..MaxBuffer :
    IsPunchInShiftWindow(Localize(Combine(BaseDay, HM(6, 30)), tz), BaseDay,
                         work_start, work_end, overnight_shift, tz, buffer_hours)

SpecWindow == Init /\ [][NextWindow]_vars

\* ------------------------------------------ zone resolution on its own
\* zone names: two that pytz knows, the empty string and an unknown name
ZoneNames == { "Africa/Nairobi", "UTC", "", "Mars/Olympus" }
ZoneOffset == [ z \in {"Africa/Nairobi", "UTC"} |->
                  IF z = "UTC" THEN 0 ELSE 3 ]

\* pytz.timezone(name): the zone, or UnknownTimeZoneError raised
pytz_timezone(name) ==
  IF name \in DOMAIN ZoneOffset
    THEN [raised |-> FALSE, tz |-> ZoneOffset[name]]
    ELSE [raised |-> TRUE, tz |-> None]

\* device_tz of fetch_attendance: the first non-empty name of
\* device.timezone, settings.DEVICE_TIME_ZONE and 'Africa/Nairobi', and
\* pytz.UTC when pytz does not know it
fetch_attendance_device_tz(device_timezone, DEVICE_TIME_ZONE) ==
  LET device_tz_name ==
        IF device_timezone # "" THEN device_timezone
        ELSE IF DEVICE_TIME_ZONE # "" THEN DEVICE_TIME_ZONE
        ELSE "Africa/Nairobi"
  IN IF pytz_timezone(device_tz_name).raised
       THEN [raised |-> FALSE, tz |-> 0]
       ELSE pytz_timezone(device_tz_name)

\* tz of process_attendance_for_date and is_punch_in_shift_window:
\* pytz.timezone(device.timezone), outside any try block
process_attendance_for_date_tz(device_timezone) ==
  pytz_timezone(device_timezone)

ZoneCall(site, device_timezone, DEVICE_TIME_ZONE, zone) ==
  [ args |-> <<site, device_timezone, DEVICE_TIME_ZONE>>, site |-> site,
    device_timezone |-> device_timezone, DEVICE_TIME_ZONE |-> DEVICE_TIME_ZONE,
    raised |-> zone.raised, tz |-> zone.tz ]

\* a poll resolves the zone of a device
ResolveForPolling(device_timezone, DEVICE_TIME_ZONE) ==
  /\ lastOp' =
       [ Op("zone", None, {}, {}, NoResults, FALSE, {}) EXCEPT !.call =
           ZoneCall("polling", device_timezone, DEVICE_TIME_ZONE,
             fetch_attendance_device_tz(device_timezone, DEVICE_TIME_ZONE)) ]
  /\ UNCHANGED <<settings, device_tz, crm, raw, processed, outliers, created>>

\* a unit of shift processing resolves the zone of its device
ResolveForProcessing(device_timezone, DEVICE_TIME_ZONE) ==
  /\ lastOp' =
       [ Op("zone", None, {}, {}, NoResults, FALSE, {}) EXCEPT !.call =
           ZoneCall("processing", device_timezone, DEVICE_TIME_ZONE,
             process_attendance_for_date_tz(device_timezone)) ]
  /\ UNCHANGED <<settings, device_tz, crm, raw, processed, outliers, created>>

NextZone ==
  \/ \E device_timezone \in ZoneNames, DEVICE_TIME_ZONE \in ZoneNames :
       ResolveForPolling(device_timezone, DEVICE_TIME_ZONE)
  \/ \E device_timezone \in ZoneNames, DEVICE_TIME_ZONE \in ZoneNames :
       ResolveForProcessing(device_timezone, DEVICE_TIME_ZONE)

SpecZone == Init /\ [][NextZone]_vars

\* --------------------------------------------- the aggregate of one shift
\* number of RawAttendance rows the store holds
MaxRows == 3
\* punches of one local day: for the day shift 04:30 is before the window,
\* for the overnight shifts of the day before 08:00 or 14:00 is after it
ShiftTods == { HM(2, 0), HM(4, 30), HM(8, 0), HM(14, 0) }

\* what a terminal answers to one poll: one event, or two in either order
ShiftPolls ==
  { <<Attendance(u, day, tod)>> : u \in Users, day \in PunchDays, tod \in ShiftTods }
  \cup
  { <<Attendance(u, day, t1), Attendance(u, day, t2)>> :
      u \in Users, day \in PunchDays, t1 \in ShiftTods, t2 \in ShiftTods }

\* "for device in devices" of poll_all_devices, since left at None
RECURSIVE PollDevices(_, _, _, _)
PollDevices(devices, acc, attendances, tzs) ==
  IF devices = <<>> THEN acc
  ELSE The({ PollDevices(Tail(devices),
                         [ raw |-> f.raw,
                           total_fetched |-> acc.total_fetched + f.total_fetched,
                           new_records |-> acc.new_records + f.new_records ],
                         attendances, tzs) :
               f \in { fetch_attendance(acc.raw, Head(devices),
                                        attendances[Head(devices)], None, tzs) } })

\* poll_all_devices(): every device answers with its attendance list
PollAllDevices(attendances) ==
  \E f \in { PollDevices(AllDevices,
                 [raw |-> raw, total_fetched |-> 0, new_records |-> 0],
                 attendances, device_tz) } :
     /\ Cardinality(f.raw) <= MaxRows
     /\ raw' = f.raw
     /\ created' = created + f.new_records
     /\ lastOp' = [ Op("poll", None, {}, {}, NoResults, FALSE, {})
                      EXCEPT !.fetched = [total_fetched |-> f.total_fetched,
                                          new_records |-> f.new_records] ]
     /\ UNCHANGED <<settings, device_tz, crm, processed, outliers>>

NextShift ==
  \/ \E attendances \in [Devices -> ShiftPolls] : PollAllDevices(attendances)
  \/ \E asc \in [PunchDates -> BOOLEAN] :
       ProcessAllUnprocessedAttendance(asc, NoFault)
  \/ \E target_date \in PunchDates : ProcessAllAttendanceForDate(target_date)

SpecShift == Init /\ [][NextShift]_vars

\* ------------------------------------------- the outlier reason on its own
\* day shifts: the default hours, a shift that ends late in the evening and
\* a shift that starts soon after midnight; and one overnight shift
ReasonSettings ==
  { [ WORK_START_TIME |-> ws, WORK_END_TIME |-> we, OVERNIGHT_SHIFT |-> FALSE,
      OVERNIGHT_SHIFT_BUFFER_HOURS |-> b, OUTLIER_EARLY_CLOCK_IN_HOURS |-> 2 ] :
      ws \in {<<8, 0>>, <<1, 0>>}, we \in {<<18, 0>>, <<21, 0>>}, b \in 0..MaxBuffer }
  \cup
  { [ WORK_START_TIME |-> <<20, 0>>, WORK_END_TIME |-> <<5, 0>>,
      OVERNIGHT_SHIFT |-> TRUE, OVERNIGHT_SHIFT_BUFFER_HOURS |-> 2,
      OUTLIER_EARLY_CLOCK_IN_HOURS |-> 2 ] }
ReasonTods == { HM(0, 30), HM(5, 0), HM(12, 0), HM(21, 30), HM(23, 30) }

\* the punch is returned by the query of process_attendance_for_date
IsCandidate(punch_datetime, attendance_date, stg, tz) ==
  LET work_start == parse_work_time(stg.WORK_START_TIME)
      work_end == parse_work_time(stg.WORK_END_TIME)
      buffer_hours == stg.OVERNIGHT_SHIFT_BUFFER_HOURS
      query_start ==
        IF stg.OVERNIGHT_SHIFT
          THEN Localize(Combine(attendance_date, work_start)
                          - (stg.OUTLIER_EARLY_CLOCK_IN_HOURS + 2) * Hour, tz)
          ELSE Localize(Combine(attendance_date, work_start)
                          - (buffer_hours + 2) * Hour, tz)
      query_end ==
        IF stg.OVERNIGHT_SHIFT
          THEN Localize(Combine(attendance_date + 1, work_end)
                          + (buffer_hours + 2) * Hour, tz)
          ELSE Localize(Combine(attendance_date, work_end)
                          + (buffer_hours + 2) * Hour, tz)
  IN punch_datetime >= query_start /\ punch_datetime <= query_end

\* determine_outlier_reason as STEP 3 calls it: for a candidate punch
\* outside the window of attendance_date
DetermineOutlierReason(punch_datetime, attendance_date, stg, tz) ==
  LET work_start == parse_work_time(stg.WORK_START_TIME)
      work_end == parse_work_time(stg.WORK_END_TIME)
      overnight_shift == stg.OVERNIGHT_SHIFT
      buffer_hours == stg.OVERNIGHT_SHIFT_BUFFER_HOURS
  IN /\ IsCandidate(punch_datetime, attendance_date, stg, tz)
     /\ ~is_punch_in_shift_window(punch_datetime, attendance_date, work_start,
                                  work_end, overnight_shift, tz, buffer_hours)
     /\ lastOp' =
          [ Op("reason", attendance_date, {}, {}, NoResults, FALSE, {}) EXCEPT !.call =
              [ args |-> <<punch_datetime, attendance_date, stg, tz>>,
                punch_datetime |-> punch_datetime,
                overnight_shift |-> overnight_shift,
                window_start |->
                  Localize(window_start_local(attendance_date, work_start,
                                              buffer_hours), tz),
                window_end |->
                  Localize(window_end_local(attendance_date, work_end,
                                            overnight_shift, buffer_hours), tz),
                reason |->
                  determine_outlier_reason(punch_datetime, attendance_date,
                    work_start, work_end, overnight_shift, tz, buffer_hours) ] ]
     /\ UNCHANGED <<settings, device_tz, crm, raw, processed, outliers, created>>

NextReason ==
  \E stg \in ReasonSettings, tz \in DeviceTimezones,
     day \in (BaseDay - 1)..(BaseDay + 1), tod \in ReasonTods :
    DetermineOutlierReason(Localize(Combine(day, tod), tz), BaseDay, stg, tz)

SpecReason == Init /\ [][NextReason]_vars

\* ------------------------------------------------- a registry of two devices
Fleet == {"d1", "d2"}
FleetTods == { HM(8, 0), HM(20, 45) }

InitFleet ==
  /\ settings \in Settings
  /\ device_tz \in [Fleet -> DeviceTimezones]
  /\ raw = {}
  /\ processed = EmptyBag
  /\ outliers = EmptyBag
  /\ lastOp = Op("init", None, {}, {}, NoResults, FALSE, {})
  /\ created = 0
  /\ crm = DefaultCrm

NextFleet ==
  \/ \E d \in Fleet, u \in Users, day \in PunchDays, tod \in FleetTods :
       FetchAttendance(d, u, day, tod)
  \/ \E asc \in [PunchDates -> BOOLEAN] :
       ProcessAllUnprocessedAttendance(asc, NoFault)
  \/ \E target_date \in PunchDates : ProcessAllAttendanceForDate(target_date)
  \/ \E start_date \in ShiftDatesStored, end_date \in ShiftDatesStored,
        device \in Fleet \cup {NoDevice} :
       ReprocessAttendance(start_date, end_date, device)

SpecFleet == InitFleet /\ [][NextFleet]_vars

\* ------------------------------------------------------ the periodic sync
MaxBatch == 2
\* the times at which the beat schedule starts a sync task
Nows == { Combine(BaseDay + 2, HM(9, 0)), Combine(BaseDay + 2, HM(9, 30)) }
SyncTods == { HM(2, 0), HM(4, 30), HM(20, 45) }

SyncCall(args, r) ==
  [ args |-> args, sent |-> r.sent, successful |-> r.successful,
    failed |-> r.failed ]

\* sync_to_crm_task(limit=None): the limit is settings.CRM_SYNC_BATCH_SIZE
SyncToCrmTask(now) ==
  \E r \in { sync_unsynced_attendance(processed, crm.batch_size, now, crm) } :
     /\ processed' = r.table
     /\ lastOp' = [ Op("sync", None, {}, {}, NoResults, FALSE, {})
                      EXCEPT !.call = SyncCall(<<crm.batch_size>>, r) ]
     /\ UNCHANGED <<settings, device_tz, crm, raw, outliers, created>>

\* retry_failed_syncs_task()
RetryFailedSyncsTask(now) ==
  \E r \in { retry_failed_syncs(processed, CRM_MAX_RETRIES, now, crm) } :
     /\ processed' = r.table
     /\ lastOp' = [ Op("retry", None, {}, {}, NoResults, FALSE, {})
                      EXCEPT !.call = SyncCall(<<CRM_MAX_RETRIES>>, r) ]
     /\ UNCHANGED <<settings, device_tz, crm, raw, outliers, created>>

InitSync ==
  /\ settings \in Settings
  /\ device_tz \in [Devices -> DeviceTimezones]
  /\ raw = {}
  /\ processed = EmptyBag
  /\ outliers = EmptyBag
  /\ lastOp = Op("init", None, {}, {}, NoResults, FALSE, {})
  /\ created = 0
  /\ crm \in { [batch_size |-> b, rejected |-> R] :
                 b \in 1..MaxBatch, R \in SUBSET {BaseDay - 1} }

NextSync ==
  \/ \E d \in Devices, u \in Users, day \in PunchDays, tod \in SyncTods :
       FetchAttendance(d, u, day, tod)
  \/ \E asc \in [PunchDates -> BOOLEAN] :
       ProcessAllUnprocessedAttendance(asc, NoFault)
  \/ \E start_date \in ShiftDatesStored, end_date \in ShiftDatesStored,
        device \in Devices \cup {NoDevice} :
       ReprocessAttendance(start_date, end_date, device)
  \/ \E now \in Nows : SyncToCrmTask(now)
  \/ \E now \in Nows : RetryFailedSyncsTask(now)

SpecSync == InitSync /\ [][NextSync]_vars

\* ---- the periodic sync under the beat schedule, overnight shifts
BeatTods == { HM(2, 0), HM(20, 45) }

InitBeat ==
  /\ InitSync
  /\ settings.OVERNIGHT_SHIFT

NextBeat ==
  \/ \E d \in Devices, u \in Users, day \in PunchDays, tod \in BeatTods :
       FetchAttendance(d, u, day, tod)
  \/ \E asc \in [PunchDates -> BOOLEAN] :
       ProcessAllUnprocessedAttendance(asc, NoFault)
  \/ \E now \in Nows : SyncToCrmTask(now)
  \/ \E now \in Nows : RetryFailedSyncsTask(now)

\* the beat schedule starts both sync tasks again and again
SpecBeat ==
  /\ InitBeat
  /\ [][NextBeat]_vars
  /\ WF_vars(\E now \in Nows : SyncToCrmTask(now))
  /\ WF_vars(\E now \in Nows : RetryFailedSyncsTask(now))

\* ---- the device sessions: every call made on the connection, with
\* the calls in `faults` raising
FetchCalls ==
  { "connect", "disable_device", "get_attendance", "get_or_create",
    "update_last_sync", "enable_device", "disconnect" }
ClearCalls ==
  { "connect", "disable_device", "clear_attendance", "enable_device",
    "disconnect" }
DeleteCalls ==
  { "connect", "disable_device", "delete_user", "enable_device",
    "disconnect" }

\* the statements of a try block run until the first one that raises
RECURSIVE TryCalls(_, _)
TryCalls(calls, faults) ==
  IF calls = <<>> THEN <<>>
  ELSE IF Head(calls) \in faults THEN <<Head(calls)>>
  ELSE <<Head(calls)>> \o TryCalls(Tail(calls), faults)

AnyRaises(calls, faults) == \E i \in 1..Len(calls) : calls[i] \in faults

Session(op, args, calls, faults, outcome, result) ==
  [ op |-> op, args |-> args, calls |-> calls,
    raised |-> { calls[i] : i \in 1..Len(calls) } \cap faults,
    outcome |-> outcome, result |-> result ]

\* fetch_attendance with one event on the terminal: the try block, the
\* except that re-raises, and the finally with its two guarded calls
FetchAttendanceSession(device, user_id, day, tod, faults) ==
  LET body == <<"disable_device", "get_attendance", "get_or_create",
                "update_last_sync">>
      tried == TryCalls(body, faults)
      stored == /\ "connect" \notin faults
                /\ ~AnyRaises(<<"disable_device", "get_attendance",
                             "get_or_create">>, faults)
  IN \E r \in { fetch_attendance(raw, device,
                  <<[user_id |-> user_id, timestamp |-> Combine(day, tod)]>>,
                  None, device_tz) } :
       \E n \in { IF stored THEN r.new_records ELSE 0 } :
         /\ created + n <= MaxPunches
         /\ raw' = IF stored THEN r.raw ELSE raw
         /\ created' = created + n
         /\ lastOp' =
              [ Op("device", None, {}, {}, NoResults, FALSE, {})
                  EXCEPT !.call =
                    IF "connect" \in faults
                    THEN Session("fetch_attendance", <<device>>,
                                 <<"connect">>, faults, "raise", None)
                    ELSE Session("fetch_attendance", <<device>>,
                           <<"connect">> \o tried
                             \o <<"enable_device", "disconnect">>,
                           faults,
                           IF AnyRaises(body, faults) THEN "raise" ELSE "return",
                           IF AnyRaises(body, faults) THEN None
                           ELSE <<r.total_fetched, r.new_records>>) ]
         /\ UNCHANGED <<settings, device_tz, crm, processed, outliers>>

\* clear_device_attendance: except returns False, finally disconnects
ClearDeviceAttendance(device, faults) ==
  LET body == <<"disable_device", "clear_attendance", "enable_device">>
  IN /\ lastOp' =
          [ Op("device", None, {}, {}, NoResults, FALSE, {})
              EXCEPT !.call =
                IF "connect" \in faults
                THEN Session("clear_device_attendance", <<device>>,
                             <<"connect">>, faults, "raise", None)
                ELSE Session("clear_device_attendance", <<device>>,
                       <<"connect">> \o TryCalls(body, faults)
                         \o <<"disconnect">>,
                       faults, "return", ~AnyRaises(body, faults)) ]
     /\ UNCHANGED <<settings, device_tz, crm, raw, processed, outliers,
                    created>>

\* user ids as typed on the terminal, and int(user_id) where it parses
DeviceUserIds == { "7", "40000", "u1" }
int(user_id) ==
  CASE user_id = "7" -> 7
    [] user_id = "40000" -> 40000
    [] OTHER -> None

\* the keyword delete_user is called with
DeleteUserBy(user_id) ==
  IF int(user_id) # None /\ -32768 <= int(user_id) /\ int(user_id) <= 32767
  THEN "uid" ELSE "user_id"

\* delete_device_user: except returns False, finally enables and
\* disconnects, each call guarded
DeleteDeviceUser(device, user_id, faults) ==
  LET body == <<"disable_device", "delete_user", "enable_device">>
  IN /\ lastOp' =
          [ Op("device", None, {}, {}, NoResults, FALSE, {})
              EXCEPT !.call =
                IF "connect" \in faults
                THEN Session("delete_device_user",
                             <<device, DeleteUserBy(user_id)>>,
                             <<"connect">>, faults, "raise", None)
                ELSE Session("delete_device_user",
                       <<device, DeleteUserBy(user_id)>>,
                       <<"connect">> \o TryCalls(body, faults)
                         \o <<"enable_device", "disconnect">>,
                       faults, "return", ~AnyRaises(body, faults)) ]
     /\ UNCHANGED <<settings, device_tz, crm, raw, processed, outliers,
                    created>>

NextDevice ==
  \/ \E d \in Devices, u \in Users, day \in PunchDays, tod \in FleetTods,
        faults \in SUBSET FetchCalls :
       FetchAttendanceSession(d, u, day, tod, faults)
  \/ \E d \in Devices, faults \in SUBSET ClearCalls :
       ClearDeviceAttendance(d, faults)
  \/ \E d \in Devices, user_id \in DeviceUserIds,
        faults \in SUBSET DeleteCalls :
       DeleteDeviceUser(d, user_id, faults)

SpecDevice == Init /\ [][NextDevice]_vars

\* =================================================================== claims
WorkStart == parse_work_time(settings.WORK_START_TIME)
WorkEnd == parse_work_time(settings.WORK_END_TIME)
Overnight == settings.OVERNIGHT_SHIFT
Buffer == settings.OVERNIGHT_SHIFT_BUFFER_HOURS
\* what the clock of the punch's device showed at the punch
LocalClock(device, ts) == ts + device_tz[device] * Hour
ShiftDateRange == (BaseDay - 2) .. (BaseDay + 1)
\* the punch lies in the window of shift date D, on the device's clock
InLocalWindow(device, ts, D) ==
  /\ D * Day + WorkStart - Buffer * Hour <= LocalClock(device, ts)
  /\ LocalClock(device, ts)
       <= (IF Overnight THEN D + 1 ELSE D) * Day + WorkEnd + Buffer * Hour
RowsOfKey(table, device, user_id, shift_date) ==
  { r \in Rows(table) : ProcessedKeyIs(r, device, user_id, shift_date) }
OutlierKeys(table) ==
  { <<r.device, r.user_id, r.punch_datetime>> : r \in Rows(table) }
IsComplete(r) == r.earliest_punch # None /\ r.latest_punch # None

\* C1: is_punch_in_shift_window is true exactly when the device's clock at
\* the punch reads a time in [shift_date work_start - buffer,
\* shift_date(+1 if overnight) work_end + buffer], both bounds included, and
\* every processed unit partitions its candidate punches by that test.
C1_WindowInclusive ==
  /\ \A p \in raw, D \in ShiftDateRange :
       is_punch_in_shift_window(p.timestamp, D, WorkStart, WorkEnd, Overnight,
                                device_tz[p.device], Buffer)
         <=> InLocalWindow(p.device, p.timestamp, D)
  /\ \A u \in lastOp.units :
       /\ u.in_window_punches =
            { p \in u.all_punches : InLocalWindow(p.device, p.timestamp, u.shift_date) }
       /\ u.out_of_window_punches = u.all_punches \ u.in_window_punches

\* day 08:00-18:00 buffer 2: a unit kept the 06:00:00 punch and rejected
\* the 05:59:59 punch
C1_Witness ==
  /\ ~Overnight /\ WorkStart = HM(8, 0) /\ Buffer = 2
  /\ \E u \in lastOp.units :
       /\ \E p \in u.in_window_punches :
            LocalClock(p.device, p.timestamp) = Combine(u.shift_date, HM(6, 0))
       /\ \E q \in u.out_of_window_punches :
            LocalClock(q.device, q.timestamp) = Combine(u.shift_date, HMS(5, 59, 59))

\* C2: no processing run changes reviewed from true to false on an
\* OutlierPunch row that exists before and after the run.
C2_ReviewedKept ==
  [][ lastOp'.kind \in {"batch", "date", "delete"} =>
        \A o \in Rows(outliers), n \in Rows(outliers') :
          (o.reviewed /\ OutlierKeyIs(n, o.device, o.user_id, o.punch_datetime))
            => n.reviewed ]_vars

\* the ProcessedShift fields the spec lists, with the number of rows
ShiftFields(table, key) ==
  { [ earliest_punch |-> r.earliest_punch, latest_punch |-> r.latest_punch,
      punch_count |-> r.punch_count, is_late_arrival |-> r.is_late_arrival,
      is_early_departure |-> r.is_early_departure,
      is_incomplete |-> r.is_incomplete, notes |-> r.notes,
      copies |-> table[r] ] : r \in RowsOfKey(table, key[1], key[2], key[3]) }

NoDuplicateOutlier(table) ==
  /\ \A r \in Rows(table) : table[r] = 1
  /\ \A r1, r2 \in Rows(table) :
       OutlierKeyIs(r1, r2.device, r2.user_id, r2.punch_datetime) => r1 = r2

\* C3: a run that processes again keys the run before it processed, with
\* the raw punches unchanged, leaves the listed ProcessedShift fields of
\* those keys and the set of OutlierPunch keys as they were, and no
\* OutlierPunch row twice.
C3_Idempotent ==
  [][ (IsProcessing(lastOp') /\ lastOp'.again) =>
        /\ \A key \in UnitKeys(lastOp'.units) :
             ShiftFields(processed', key) = ShiftFields(processed, key)
        /\ OutlierKeys(outliers') = OutlierKeys(outliers)
        /\ NoDuplicateOutlier(outliers') ]_vars

\* a key with in-window and out-of-window punches was processed twice
C3_Witness ==
  /\ IsProcessing(lastOp) /\ lastOp.again
  /\ \E u \in lastOp.units :
       /\ u.in_window_punches # {} /\ u.out_of_window_punches # {}
       /\ RowsOfKey(processed, u.device, u.user_id, u.shift_date) # {}

HasOutlierRow(p) ==
  \E o \in Rows(outliers) : OutlierKeyIs(o, p.device, p.user_id, p.timestamp)
CountedIn(p, r) ==
  r.device = p.device /\ r.user_id = p.user_id /\ p.timestamp \in r.counted

\* C4: after a batch run every raw punch is counted in a ProcessedShift of
\* its (device, user) whose window contains it, or has an OutlierPunch row.
C4_EveryPunchAccounted ==
  lastOp.kind = "batch" =>
    \A p \in raw :
      \/ \E r \in Rows(processed) :
           CountedIn(p, r) /\ InLocalWindow(p.device, p.timestamp, r.shift_date)
      \/ HasOutlierRow(p)

\* C5: after a batch run no raw punch is counted in two ProcessedShift rows
\* and no raw punch is both counted in a ProcessedShift and an OutlierPunch.
C5_CountedOnce ==
  lastOp.kind = "batch" =>
    \A p \in raw :
      /\ \A r1, r2 \in Rows(processed) :
           (CountedIn(p, r1) /\ CountedIn(p, r2)) => r1 = r2
      /\ ~(HasOutlierRow(p) /\ \E r \in Rows(processed) : CountedIn(p, r))

\* C6: a key processed with exactly one in-window punch has a row with
\* earliest_punch that punch, latest_punch none, punch_count 1,
\* is_incomplete true and neither late nor early.
C6_SinglePunchIncomplete ==
  \A u \in lastOp.units :
    Cardinality(u.in_window_punches) = 1 =>
      /\ RowsOfKey(processed, u.device, u.user_id, u.shift_date) # {}
      /\ \A r \in RowsOfKey(processed, u.device, u.user_id, u.shift_date) :
           /\ \E p \in u.in_window_punches : r.earliest_punch = p.timestamp
           /\ r.latest_punch = None
           /\ r.punch_count = 1
           /\ r.is_incomplete
           /\ ~r.is_late_arrival /\ ~r.is_early_departure

\* the single in-window punch is after work_start on the device's clock
C6_Witness ==
  \E u \in lastOp.units :
    /\ Cardinality(u.in_window_punches) = 1
    /\ \E p \in u.in_window_punches :
         TimeOf(LocalClock(p.device, p.timestamp)) > WorkStart
    /\ RowsOfKey(processed, u.device, u.user_id, u.shift_date) # {}

\* C7: a complete row has is_late_arrival exactly when the time of day of
\* earliest_punch on the device's clock is strictly after work_start.
C7_LateArrival ==
  \A r \in Rows(processed) :
      IsComplete(r) =>
        (r.is_late_arrival <=>
           TimeOf(LocalClock(r.device, r.earliest_punch)) > WorkStart)

\* an overnight shift whose earliest punch is at 20:45 is late
C7_Witness ==
  /\ Overnight /\ WorkStart = HM(20, 0)
  /\ \E r \in Rows(processed) :
         /\ IsComplete(r) /\ r.is_late_arrival
         /\ TimeOf(LocalClock(r.device, r.earliest_punch)) = HM(20, 45)

LatestTime(r) == TimeOf(LocalClock(r.device, r.latest_punch))

\* C8 as claimed: for every overnight configuration early departure needs
\* the latest punch in the morning hours and before work_end.
C8_EarlyDeparture_Claimed ==
  \A r \in Rows(processed) :
      IsComplete(r) =>
        (r.is_early_departure <=>
           IF Overnight
             THEN HourOf(LatestTime(r)) < 12 /\ LatestTime(r) < WorkEnd
             ELSE LatestTime(r) < WorkEnd)

\* C8: a complete row has is_early_departure exactly when: overnight with
\* work_end before noon, the latest punch is before noon and before
\* work_end; in every other configuration, the latest punch's time of day
\* is before work_end.
C8_EarlyDeparture ==
  \A r \in Rows(processed) :
      IsComplete(r) =>
        (r.is_early_departure <=>
           IF Overnight /\ HourOf(WorkEnd) < 12
             THEN HourOf(LatestTime(r)) < 12 /\ LatestTime(r) < WorkEnd
             ELSE LatestTime(r) < WorkEnd)

\* overnight with work_end 13:00: the latest punch at 12:30 is early
C8_Witness ==
  /\ Overnight /\ HourOf(WorkEnd) >= 12
  /\ \E r \in Rows(processed) :
         /\ IsComplete(r) /\ r.is_early_departure
         /\ HourOf(LatestTime(r)) >= 12

IsEmptyShiftRow(r) ==
  /\ r.is_incomplete /\ r.punch_count = 0
  /\ r.earliest_punch = None /\ r.latest_punch = None
  /\ r.notes # <<>>

C10_DiscoveryLocalDate ==
  (lastOp.kind = "batch" /\ Overnight) =>
    /\ \A p \in raw : \E m \in lastOp.discovery : m.punch = p
    /\ \A m \in lastOp.discovery :
         LET clock == LocalClock(m.punch.device, m.punch.timestamp)
         IN m.shift_date = IF TimeOf(clock) < WorkStart
                             THEN DateOf(clock) - 1
                             ELSE DateOf(clock)

\* C11 as claimed: in every configuration, also with overnight false and
\* work_end earlier in the day than work_start, window_start <= window_end.
C11_WindowOrdered_Claimed ==
  lastOp.kind = "window" =>
    lastOp.call.window_start <= lastOp.call.window_end

\* C11: window_start <= window_end exactly when overnight is true or
\* work_end + 2 * buffer_hours is not earlier than work_start; a day shift
\* whose work_end lies more than 2 * buffer_hours before work_start has an
\* empty window.
C11_WindowOrdered ==
  lastOp.kind = "window" =>
    LET c == lastOp.call
    IN (c.window_start <= c.window_end)
         <=> \/ c.overnight_shift
             \/ c.work_end + 2 * c.buffer_hours * Hour >= c.work_start

\* a day shift 08:00-05:00 with buffer 2: the window [06:00, 07:00] is
\* ordered although work_end is earlier than work_start, and holds 06:30
C11_Witness ==
  /\ lastOp.kind = "window"
  /\ ~lastOp.call.overnight_shift
  /\ lastOp.call.work_end < lastOp.call.work_start
  /\ lastOp.call.window_start <= lastOp.call.window_end
  /\ lastOp.call.result

\* the keys of a set of units / of the attempts that raised
FailedKeys(op) == { f.key : f \in op.failures }
UnitShiftKeys(units) ==
  { ShiftKey(u.user_id, u.device, u.shift_date) : u \in units }

\* C12: when a unit raises in a batch run, the failure is counted in
\* 'failed', the run returns its counts, and every other shift key discovered
\* from the raw store is processed in that same run.
C12_FailureIsolated ==
  (lastOp.kind = "batch" /\ lastOp.failures # {}) =>
    /\ lastOp.results.failed >= 1
    /\ \A k \in DiscoveredKeys :
         k \notin FailedKeys(lastOp) => k \in UnitShiftKeys(lastOp.units)

\* C13: after any sequence of batch, date-range, single-date, sync-day and
\* reprocess operations the ProcessedAttendance table holds at most one row
\* per (device, user_id, shift_date).
C13_OneRowPerKey ==
  \A r \in Rows(processed) :
    /\ CopiesIn(r, processed) = 1
    /\ \A q \in Rows(processed) :
         ProcessedKeyIs(q, r.device, r.user_id, r.shift_date) => q = r

\* the reprocess view has just processed again a key that had a row, and the
\* key still has one row
C13_Witness ==
  /\ lastOp.kind = "reprocess"
  /\ \E u \in lastOp.units :
       /\ u.all_punches # {}
       /\ Cardinality(RowsOfKey(processed, u.device, u.user_id, u.shift_date)) = 1

\* the OutlierPunch rows of the punches of a set
OutlierRowsOf(table, punches) ==
  { o \in Rows(table) :
      \E p \in punches : OutlierKeyIs(o, p.device, p.user_id, p.timestamp) }

\* C14: a unit that fails leaves none of its writes in the store: the
\* OutlierPunch rows of its out-of-window punches are what they were before
\* the run, as is the ProcessedShift row of its key.
C14_UnitAtomic ==
  [][ \A f \in lastOp'.failures :
        (f.key \notin UnitShiftKeys(lastOp'.units)) =>
          /\ OutlierRowsOf(outliers', f.unit.out_of_window_punches)
               = OutlierRowsOf(outliers, f.unit.out_of_window_punches)
          /\ RowsOfKey(processed', f.unit.device, f.unit.user_id, f.unit.shift_date)
               = RowsOfKey(processed, f.unit.device, f.unit.user_id, f.unit.shift_date)
    ]_vars

\* every order in which the keys of a set can be processed
RECURSIVE Orders(_)
Orders(keys) ==
  IF keys = {} THEN {<<>>}
  ELSE UNION { { <<k>> \o s : s \in Orders(keys \ {k}) } : k \in keys }

\* the tables after processing the keys in the order of a sequence
TablesAfter(keys) ==
  The({ [processed |-> r.processed, outliers |-> r.outliers] :
          r \in { RunKeys(keys, StartRun(Tables), raw, settings, device_tz) } })

\* C15: processing the distinct shift keys discovered from the raw store
\* leaves the same ProcessedShift rows and the same OutlierPunch rows
\* (reason and associated_shift_date included) in whatever order the keys
\* are processed.
C15_OrderIndependent ==
  \A s1 \in Orders(DiscoveredKeys), s2 \in Orders(DiscoveredKeys) :
    TablesAfter(s1) = TablesAfter(s2)

\* C16: within one batch run every shift key is attempted at most once,
\* whether the attempt returned or raised.
C16_AttemptedOnce ==
  lastOp.kind = "batch" =>
    \A k \in BagToSet(lastOp.attempts) : CopiesIn(k, lastOp.attempts) = 1

\* the raw table with every event kept once
DeliveredOnce(rawRows) ==
  { RawRow(p.device, p.user_id, p.timestamp) : p \in rawRows }

\* punch_count, earliest_punch and latest_punch of a set of rows
Aggregate(rows) ==
  { [ punch_count |-> r.punch_count, earliest_punch |-> r.earliest_punch,
      latest_punch |-> r.latest_punch ] : r \in rows }

\* C17: however often the terminals deliver an event, the raw store holds
\* one row per (device, user_id, timestamp), and every processed unit has
\* the punch_count, earliest_punch and latest_punch it has when each event
\* is delivered once.
C17_DuplicateCollapse ==
  /\ \A p \in raw, q \in raw :
       RawKeyIs(q, p.device, p.user_id, p.timestamp) => q = p
  /\ \A u \in lastOp.units :
       Aggregate(RowsOfKey(processed, u.device, u.user_id, u.shift_date))
         = Aggregate(process_attendance_for_date(u.user_id, u.shift_date,
                       u.device, Tables, DeliveredOnce(raw), settings,
                       device_tz).ret)

\* sync_day polled a terminal that answered with the same event twice: one
\* row was created and the shift of the day counts the punch once
C17_Witness ==
  /\ lastOp.kind = "sync_day"
  /\ lastOp.fetched.total_fetched = 2
  /\ lastOp.fetched.new_records = 1
  /\ Cardinality(raw) = 1
  /\ \E u \in lastOp.units :
       /\ u.in_window_punches = raw
       /\ \E r \in RowsOfKey(processed, u.device, u.user_id, u.shift_date) :
            r.punch_count = 1

\* the zone of the first name pytz knows among the device's zone name, the
\* process-wide default name and the fallback region 'Africa/Nairobi'
PreferredZone(device_timezone, DEVICE_TIME_ZONE) ==
  IF ~pytz_timezone(device_timezone).raised
    THEN pytz_timezone(device_timezone).tz
  ELSE IF ~pytz_timezone(DEVICE_TIME_ZONE).raised
    THEN pytz_timezone(DEVICE_TIME_ZONE).tz
  ELSE pytz_timezone("Africa/Nairobi").tz

\* C18: in polling and in shift processing the resolution of a device's zone
\* never raises and yields the zone of the first parseable name in the order
\* device zone name, process-wide default, fallback region, UTC.
C18_ZoneResolution ==
  lastOp.kind = "zone" =>
    /\ ~lastOp.call.raised
    /\ lastOp.call.tz = PreferredZone(lastOp.call.device_timezone,
                                      lastOp.call.DEVICE_TIME_ZONE)

EmptyTables == [processed |-> EmptyBag, outliers |-> EmptyBag]

\* the rows of both tables after a run
RowsAfter(r) == [processed |-> Rows(r.processed), outliers |-> Rows(r.outliers)]

\* process_all_attendance_for_date for each date of a sequence
RECURSIVE ProcessEachDate(_, _)
ProcessEachDate(dates, tabs) ==
  IF dates = <<>> THEN tabs
  ELSE The({ ProcessEachDate(Tail(dates),
                             [processed |-> r.processed, outliers |-> r.outliers]) :
               r \in { process_all_attendance_for_date(tabs, raw, Head(dates),
                                                       settings, device_tz) } })

\* C19: from empty tables, processing the raw store date by date and as one
\* date range covering every punch both leave the rows the batch run leaves.
C19_EntryPointsAgree ==
  raw # {} =>
    \A asc \in [PunchDates -> BOOLEAN] :
      LET lo == CHOOSE d \in PunchDates : \A e \in PunchDates : d <= e
          hi == CHOOSE d \in PunchDates : \A e \in PunchDates : e <= d
          batch == RowsAfter(process_all_unprocessed_attendance(EmptyTables, raw,
                               settings, device_tz, asc, NoFault))
      IN /\ RowsAfter(ProcessEachDate(DaysFrom(lo, hi), EmptyTables)) = batch
         /\ RowsAfter(process_attendance_for_date_range(EmptyTables, raw, lo, hi,
                        settings, device_tz)) = batch

\* C20: the 'outliers' count of a batch run is greater than zero whenever
\* the run created or updated an OutlierPunch row.
C20_OutliersCounted ==
  (lastOp.kind = "batch" /\ \E u \in lastOp.units : u.out_of_window_punches # {})
    => lastOp.results.outliers > 0

\* the clock of the row's device at its earliest / latest punch
EarliestClock(r) == LocalClock(r.device, r.earliest_punch)
LatestClock(r) == LocalClock(r.device, r.latest_punch)

\* C21: in an overnight configuration the earliest punch of a complete row
\* lies in the evening hours (hour >= 12) of the shift date, and
\* is_late_arrival is true exactly when the earliest punch is after
\* shift_date at work_start.
C21_LateIsAfterStart ==
  Overnight =>
    \A r \in Rows(processed) :
      IsComplete(r) =>
        /\ HourOf(TimeOf(EarliestClock(r))) >= 12
        /\ DateOf(EarliestClock(r)) = r.shift_date
        /\ r.is_late_arrival <=> EarliestClock(r) > Combine(r.shift_date, WorkStart)

\* the raw punches of a device and user inside the window of a shift date
InWindowOf(device, user_id, shift_date) ==
  { p \in raw : /\ p.device = device /\ p.user_id = user_id
                /\ InLocalWindow(p.device, p.timestamp, shift_date) }
Earliest(punches) ==
  CHOOSE t \in {p.timestamp : p \in punches} : \A q \in punches : t <= q.timestamp
Latest(punches) ==
  CHOOSE t \in {p.timestamp : p \in punches} : \A q \in punches : q.timestamp <= t

\* C22: a key processed with two or more in-window punches has
\* earliest_punch the minimum and latest_punch the maximum timestamp of its
\* in-window punches and punch_count their number, and the three are what
\* they are when the out-of-window punches are not in the store.
C22_AggregateInWindow ==
  \A u \in lastOp.units :
    Cardinality(u.in_window_punches) >= 2 =>
      /\ u.in_window_punches = InWindowOf(u.device, u.user_id, u.shift_date)
      /\ RowsOfKey(processed, u.device, u.user_id, u.shift_date) # {}
      /\ \A r \in RowsOfKey(processed, u.device, u.user_id, u.shift_date) :
           /\ r.earliest_punch = Earliest(u.in_window_punches)
           /\ r.latest_punch = Latest(u.in_window_punches)
           /\ r.punch_count = Cardinality(u.in_window_punches)
      /\ Aggregate(RowsOfKey(processed, u.device, u.user_id, u.shift_date))
           = Aggregate(process_attendance_for_date(u.user_id, u.shift_date,
                         u.device, Tables, raw \ u.out_of_window_punches,
                         settings, device_tz).ret)

\* a key was processed with two in-window punches and a candidate punch
\* outside the window that is earlier than both or later than both
C22_Witness ==
  \E u \in lastOp.units :
    /\ Cardinality(u.in_window_punches) = 2
    /\ \E o \in u.out_of_window_punches :
         \/ o.timestamp < Earliest(u.in_window_punches)
         \/ o.timestamp > Latest(u.in_window_punches)
    /\ \E r \in RowsOfKey(processed, u.device, u.user_id, u.shift_date) :
         r.punch_count = 2 /\ r.earliest_punch < r.latest_punch

\* C23: for a day shift, the reason of an out-of-window punch says "before
\* shift starts" exactly when the punch is before window_start, "after shift
\* ends" exactly when it is after window_end, and the hours it reports are
\* not negative.
C23_DayReason ==
  (lastOp.kind = "reason" /\ ~lastOp.call.overnight_shift) =>
    LET c == lastOp.call
    IN /\ c.reason.text = "before shift starts" <=> c.punch_datetime < c.window_start
       /\ c.reason.text = "after shift ends" <=> c.punch_datetime > c.window_end
       /\ c.reason.secs >= 0

\* C24: every ProcessedShift row is well-formed: punch_count 0 has neither
\* punch; punch_count 1 has earliest_punch and no latest_punch; punch_count
\* of 2 or more has both, earliest_punch <= latest_punch, both inside the
\* window of the row's shift_date; is_incomplete is true exactly when
\* punch_count <= 1, and then the row is neither late nor early.
C24_RowWellFormed ==
  \A r \in Rows(processed) :
    /\ r.punch_count >= 0
    /\ r.punch_count = 0 => (r.earliest_punch = None /\ r.latest_punch = None)
    /\ r.punch_count = 1 => (r.earliest_punch # None /\ r.latest_punch = None)
    /\ r.punch_count >= 2 =>
         /\ r.earliest_punch # None /\ r.latest_punch # None
         /\ r.earliest_punch <= r.latest_punch
         /\ InLocalWindow(r.device, r.earliest_punch, r.shift_date)
         /\ InLocalWindow(r.device, r.latest_punch, r.shift_date)
    /\ r.is_incomplete <=> r.punch_count <= 1
    /\ r.is_incomplete => (~r.is_late_arrival /\ ~r.is_early_departure)

\* the table holds a row of three punches and a row without a punch in its
\* window
C24_Witness ==
  /\ \E r \in Rows(processed) :
       r.punch_count = 3 /\ r.earliest_punch < r.latest_punch /\ ~r.is_incomplete
  /\ \E r \in Rows(processed) : r.punch_count = 0 /\ r.is_incomplete

\* the raw punches a device recorded
PunchesOfDevice(device) == { p \in raw : p.device = device }

\* C25: a ProcessedShift row of device d is derived only from raw punches of
\* d: every unit a run processed counts punches of the row's device only,
\* and the row's earliest_punch, latest_punch and punch_count are what they
\* are when the store holds the punches of that device alone.
C25_OwnDeviceOnly ==
  \A u \in lastOp.units :
    /\ \A p \in u.in_window_punches : p.device = u.device
    /\ Aggregate(RowsOfKey(processed, u.device, u.user_id, u.shift_date))
         = Aggregate(process_attendance_for_date(u.user_id, u.shift_date,
                       u.device, Tables, PunchesOfDevice(u.device), settings,
                       device_tz).ret)

\* C26: a complete overnight row of shift date D has is_early_departure
\* whenever its latest punch is before D+1 at work_end, also when that punch
\* was made before midnight on the evening of D.
C26_EarlyBeforeEnd ==
  Overnight =>
    \A r \in Rows(processed) :
      (IsComplete(r) /\ LatestClock(r) < Combine(r.shift_date + 1, WorkEnd))
        => r.is_early_departure

\* the keys a sync task sent to the CRM
SentKeys(op) == { op.call.sent[i] : i \in 1..Len(op.call.sent) }
RowKey(r) == ShiftKey(r.user_id, r.device, r.shift_date)
\* the row's content is no longer the payload the CRM accepted
ChangedSinceSync(r) ==
  r.synced_to_crm /\ r.sent # <<prepare_attendance_data(r)>>

\* C27: a processing run leaves synced_to_crm, sync_attempts and
\* last_sync_attempt of every existing row as they were, whatever else it
\* changes; a synced row stays synced, and neither sync_unsynced_attendance
\* nor retry_failed_syncs sends a synced row again.
C27_SyncFieldsKept ==
  [][ /\ lastOp'.kind \in {"batch", "reprocess"} =>
           \A r \in Rows(processed), n \in Rows(processed') :
             ProcessedKeyIs(n, r.device, r.user_id, r.shift_date) =>
               /\ n.synced_to_crm = r.synced_to_crm
               /\ n.sync_attempts = r.sync_attempts
               /\ n.last_sync_attempt = r.last_sync_attempt
      /\ \A r \in Rows(processed) :
           r.synced_to_crm =>
             /\ \A n \in Rows(processed') :
                  ProcessedKeyIs(n, r.device, r.user_id, r.shift_date)
                    => n.synced_to_crm
             /\ lastOp'.kind \in {"sync", "retry"} => RowKey(r) \notin SentKeys(lastOp')
    ]_vars

\* a sync task has run over a table with a synced row whose punches changed
\* after the CRM accepted it, and did not send the row
C27_Witness ==
  /\ lastOp.kind = "sync"
  /\ \E r \in Rows(processed) :
       /\ ChangedSinceSync(r)
       /\ r.punch_count = 2
       /\ RowKey(r) \notin SentKeys(lastOp)

\* C28: after delete_attendance the ProcessedShift the call was made for is
\* deleted or recomputed: its earliest_punch and latest_punch are not the
\* timestamp of a raw punch the call deleted.
C28_NoDeletedPunchKept ==
  lastOp.kind = "delete" =>
    \A p \in lastOp.deleted, r \in Rows(processed) :
      ProcessedKeyIs(r, p.device, p.user_id, lastOp.target) =>
        /\ r.earliest_punch # p.timestamp
        /\ r.latest_punch # p.timestamp

\* the CRM endpoint answers 200 for the row's payload
Acceptable(r) == status_code(prepare_attendance_data(r), crm) \in {200, 201}
\* C29: with the sync tasks run again and again, a ProcessedShift that is
\* unsynced and that the CRM would accept is eventually marked synced,
\* whatever the batch limit and however many rows with earlier dates fail
\* on every attempt.
C29_EventuallySynced ==
  \A d \in Devices, u \in Users, D \in {BaseDay - 1, BaseDay} :
    (\E r \in RowsOfKey(processed, d, u, D) :
        ~r.synced_to_crm /\ Acceptable(r))
      ~> (\E r \in RowsOfKey(processed, d, u, D) : r.synced_to_crm)

\* C30: a device operation that has disabled the device calls
\* enable_device and, after it, disconnect before it returns or raises,
\* whichever later call fails.
C30_EnableThenDisconnect ==
  lastOp.kind = "device" =>
    LET c == lastOp.call.calls
    IN \A i \in 1..Len(c) :
         (c[i] = "disable_device" /\ c[i] \notin lastOp.call.raised) =>
           \E j \in (i + 1)..Len(c), k \in (i + 2)..Len(c) :
             j < k /\ c[j] = "enable_device" /\ c[k] = "disconnect"

====
